---------------------------- MODULE Spec2Model ----------------------------
(***************************************************************************)
(* Model of bspyalgo: the platform chooser (platforms/chooser.py) with the *)
(* neural-network surrogate platform's population loop, and the YAML       *)
(* configuration loader with "!include" directives (utils/io.py).          *)
(*                                                                         *)
(* Python lists and numpy axes are 0-based; arrays are modelled as         *)
(* functions over 0..n-1 together with their shape, Python lists as TLA+   *)
(* sequences whose elements are the 0-based indices of the source.         *)
(***************************************************************************)
EXTENDS Integers, Sequences, FiniteSets, TLC

\* ------------------------------------------------------------------ bounds
\* largest population (rows of gene_pool) handed to optimize
MaxPop == 2
\* largest number of time-steps of a waveform
MaxT == 2
\* longest input_indices / control_indices list of a configuration
MaxIdxLen == 2

\* ------------------------------------------------------- input domains
\* genes per genome (columns of gene_pool) and the values a gene takes
GeneIdx == {0, 1}
GeneVals == {0, 1}
\* channel numbers a configuration may name (3 is out of range for every model)
ChanIdx == {0, 1, 2, 3}
\* channels of the input waveform handed to optimize
InChannels == {1, 2}

SeqsUpTo(S, n) == UNION {[1..k -> S] : k \in 0..n}
Range(s) == {s[i] : i \in DOMAIN s}

VARIABLES
    platform_configs, \* the mapping handed to get_platform
    platform,         \* the object get_platform returned (class "None": none)
    pc,               \* where the caller of the platform stands
    error,            \* the exception that ended the last call, if any
    loads,            \* calls of TorchModel.load_model so far
    infers,           \* calls of TorchModel.inference_in_nanoamperes so far
    constructed,      \* classes whose __init__ has run
    inputs_wfm, gene_pool, target_wfm,  \* arguments of the running optimize call
    j,                \* loop variable of optimize
    output_popul,     \* local of optimize, its return value
    x_dummy           \* the matrix last handed to the model

pvars == <<platform_configs, platform, pc, error, loads, infers, constructed,
           inputs_wfm, gene_pool, target_wfm, j, output_popul, x_dummy>>

VARIABLES
    fs,         \* the file system: path |-> the nodes of the YAML file there
    file_name,  \* the argument of load_configs
    lpc,        \* where load_configs stands
    self_root,  \* IncludeLoader.root of the loader load_configs created
    pos,        \* the node of the root document the loader constructs next
    doc,        \* the data constructed so far
    lerror      \* the exception that ended load_configs, if any

lvars == <<fs, file_name, lpc, self_root, pos, doc, lerror>>
vars == <<pvars, lvars>>

\* ------------------------------------------------------------ numpy arrays
\* np.empty leaves the cells unwritten; the marker stands for such a cell
Uninit == -1

\* an array of shape (r, c) with cell (i, k) holding f[i, k]
Mat(r, c, f) == [nr |-> r, nc |-> c, at |-> [i \in 0..r-1 |-> [k \in 0..c-1 |-> f[i, k]]]]
EmptyMat == [nr |-> 0, nc |-> 0, at |-> <<>>]
Transpose(m) == [nr |-> m.nc, nc |-> m.nr,
                 at |-> [i \in 0..m.nc-1 |-> [k \in 0..m.nr-1 |-> m.at[k][i]]]]

\* numpy broadcasting of a value of shape (vr, vc) to a target of shape (tr, tc)
Broadcastable(vr, vc, tr, tc) == (vr = tr \/ vr = 1) /\ (vc = tc \/ vc = 1)

\* np.delete(np.arange(n), idx): the channels of 0..n-1 not in idx, ascending
Delete(n, idx) ==
    LET Kept[c \in 0..n] ==
            IF c = 0 THEN <<>>
            ELSE IF c - 1 \in Range(idx) THEN Kept[c-1]
            ELSE Append(Kept[c-1], c - 1)
    IN  Kept[n]

\* position of the last occurrence of c in idx (a repeated index keeps the
\* last value assigned)
LastPos(idx, c) == CHOOSE k \in DOMAIN idx : idx[k] = c /\ \A l \in DOMAIN idx : idx[l] = c => l <= k

\* x[:, idx] = v, with v broadcast to shape (x.nr, Len(idx))
Scatter(x, idx, v) ==
    [x EXCEPT !.at = [t \in 0..x.nr-1 |-> [c \in 0..x.nc-1 |->
        IF c \in Range(idx)
        THEN v.at[IF v.nr = 1 THEN 0 ELSE t][IF v.nc = 1 THEN 0 ELSE LastPos(idx, c) - 1]
        ELSE x.at[t][c]]]]


\* ------------------------------------------------------ the surrogate model
\* bspyalgo.utils.pytorch.TorchModel: a checkpoint file either loads, giving a
\* model whose info carries one amplitude per input channel, or does not
CheckpointPaths == {"missing.pt", "model2.pt", "model3.pt"}
CheckpointLoads(path) == path # "missing.pt"
AmplitudeLen(path) == IF path = "model2.pt" THEN 2 ELSE 3

\* inference_in_nanoamperes: one output row per input row (output channel 0
\* only is modelled), a fixed function of the row's cells
Inference(x) == [t \in 0..x.nr-1 |->
    LET row == x.at[t]
        Sum[c \in 0..x.nc] == IF c = 0 THEN 0 ELSE Sum[c-1] + c * row[c-1]
    IN  Sum[x.nc]]

\* ------------------------------------------------------------- exceptions
NoError == [type |-> "none", msg |-> <<>>]
Raise(t, m) == [type |-> t, msg |-> m]
\* f"Platform {platform_configs['modality']} is not recognized!"
NotRecognizedMsg(modality) == <<"Platform ", modality, " is not recognized!">>

\* ----------------------------------------------------------- the platforms
\* the methods each platform class defines
Methods(class) ==
    IF class \in {"SingleChip", "SingleChipSimulationNN", "SingleChipSimulationKMC"}
    THEN {"__init__", "optimize"}
    ELSE {}

NonePlatform == [class |-> "None", nn_input_dim |-> 0, input_indices |-> <<>>,
                 nr_control_genes |-> 0, control_indx |-> <<>>,
                 has_trafo |-> FALSE, trafo_indx |-> <<>>]

\* SingleChip.__init__ and SingleChipSimulationKMC.__init__: pass
StubInit(class) == [NonePlatform EXCEPT !.class = class]

\* the assert of SingleChipSimulationNN.__init__
PartitionAssert_NoCheck(nr_control_genes, control_indx) == TRUE
PartitionAssert(nr_control_genes, control_indx) == nr_control_genes = Len(control_indx)

\* SingleChipSimulationNN.__init__: what it leaves behind, as
\* [obj, err, loads]: the object (NonePlatform when it raised), the exception,
\* and the number of load_model calls made
SingleChipSimulationNN_init(platform_dict) ==
    IF ~CheckpointLoads(platform_dict.torch_model_path)
    THEN [obj |-> NonePlatform, err |-> Raise("ModelLoadError", <<platform_dict.torch_model_path>>),
          loads |-> 1]
    ELSE LET nn_input_dim == AmplitudeLen(platform_dict.torch_model_path)
             input_indices == platform_dict.input_indices
             nr_control_genes == nn_input_dim - Len(input_indices)
             control_indx == platform_dict.control_indices
         IN  IF ~PartitionAssert(nr_control_genes, control_indx)
             THEN [obj |-> NonePlatform, err |-> Raise("AssertionError", <<>>), loads |-> 1]
             ELSE [obj |-> [class |-> "SingleChipSimulationNN",
                            nn_input_dim |-> nn_input_dim,
                            input_indices |-> input_indices,
                            nr_control_genes |-> nr_control_genes,
                            control_indx |-> control_indx,
                            has_trafo |-> platform_dict.has_trafo,
                            trafo_indx |-> IF platform_dict.has_trafo
                                           THEN platform_dict.trafo_indx ELSE <<>>],
                   err |-> NoError, loads |-> 1]

\* the class get_platform's if/elif chain picks ("" when no branch matches)
PlatformClass_Fallback(modality) ==
    IF modality = "single_chip_simulation_nn" THEN "SingleChipSimulationNN"
    ELSE IF modality = "single_chip_simulation_kmc" THEN "SingleChipSimulationKMC"
    ELSE "SingleChip"
PlatformClass(modality) ==
    IF modality = "single_chip" THEN "SingleChip"
    ELSE IF modality = "single_chip_simulation_nn" THEN "SingleChipSimulationNN"
    ELSE IF modality = "single_chip_simulation_kmc" THEN "SingleChipSimulationKMC"
    ELSE ""

\* get_platform, as [obj, err, loads, constructed]
get_platform(cfg) ==
    LET class == PlatformClass(cfg.modality)
    IN  IF class = ""
        THEN [obj |-> NonePlatform,
              err |-> Raise("NotImplementedError", NotRecognizedMsg(cfg.modality)),
              loads |-> 0, constructed |-> {}]
        ELSE IF class = "SingleChipSimulationNN"
        THEN LET r == SingleChipSimulationNN_init(cfg)
             IN  [obj |-> r.obj, err |-> r.err, loads |-> r.loads, constructed |-> {class}]
        ELSE [obj |-> StubInit(class), err |-> NoError, loads |-> 0, constructed |-> {class}]

\* ---------------------------------------------------------- configurations
Modalities == {"single_chip", "single_chip_simulation_nn",
               "single_chip_simulation_kmc", "quantum_chip", "simulation"}

\* the surrogate platform reads every key; the other branches read only the
\* modality, so their remaining keys are held at one value
PlatformConfigs ==
    [modality : {"single_chip_simulation_nn"},
     torch_model_path : CheckpointPaths,
     input_indices : SeqsUpTo(ChanIdx, MaxIdxLen),
     control_indices : SeqsUpTo(GeneIdx, MaxIdxLen),
     has_trafo : {FALSE},
     trafo_indx : {<<>>}]
    \cup
    [modality : {"single_chip_simulation_nn"},
     torch_model_path : CheckpointPaths,
     input_indices : SeqsUpTo(ChanIdx, MaxIdxLen),
     control_indices : SeqsUpTo(GeneIdx, MaxIdxLen),
     has_trafo : {TRUE},
     trafo_indx : {<<1>>}]
    \cup
    [modality : Modalities \ {"single_chip_simulation_nn"},
     torch_model_path : CheckpointPaths,
     input_indices : {<<0>>},
     control_indices : {<<0, 1>>},
     has_trafo : {FALSE},
     trafo_indx : {<<>>}]

PInit ==
    /\ platform_configs \in PlatformConfigs
    /\ platform = NonePlatform
    /\ pc = "start"
    /\ error = NoError
    /\ loads = 0
    /\ infers = 0
    /\ constructed = {}
    /\ inputs_wfm = EmptyMat
    /\ gene_pool = EmptyMat
    /\ target_wfm = <<>>
    /\ j = 0
    /\ output_popul = EmptyMat
    /\ x_dummy = EmptyMat

\* the caller runs get_platform(platform_configs)
GetPlatform ==
    /\ pc = "start"
    /\ LET r == get_platform(platform_configs)
       IN  /\ platform' = r.obj
           /\ error' = r.err
           /\ loads' = loads + r.loads
           /\ constructed' = constructed \cup r.constructed
           /\ pc' = IF r.err = NoError THEN "ready" ELSE "failed"
    /\ UNCHANGED <<platform_configs, infers, inputs_wfm, gene_pool, target_wfm, j,
                   output_popul, x_dummy>>
    /\ UNCHANGED lvars

\* ------------------------------------------------------------- optimize
\* the transform handed in as platform_dict['trafo'] (here: add the first
\* transform gene to every sample), or the identity lambda x, y: x
Trafo(self, inputs, pool, jj) ==
    IF self.has_trafo
    THEN Mat(inputs.nr, inputs.nc,
             [c \in 0..inputs.nr-1, t \in 0..inputs.nc-1 |->
                 inputs.at[c][t] + pool.at[jj][self.trafo_indx[1]]])
    ELSE inputs

\* np.ones_like(target_wfm)[:, np.newaxis] * gene_pool[j, self.control_indx, np.newaxis].T
ControlVoltageGenes(self, pool, target, jj) ==
    Mat(Len(target), Len(self.control_indx),
        [t \in 0..Len(target)-1, k \in 0..Len(self.control_indx)-1 |->
            pool.at[jj][self.control_indx[k + 1]]])

\* np.delete(np.arange(self.nn_input_dim), self.input_indices)
ControlVoltageGenesIndex(self) == Delete(self.nn_input_dim, self.input_indices)

\* the exceptions one pass of the loop body can end with (none: it completes).
\* An input index beyond the model's channels ends np.delete or the indexed
\* assignment with an IndexError; where the shapes do not broadcast either,
\* the assignment may report that first.
IterErrors(self, inputs, pool, target, jj) ==
    LET T == Len(target)
        badGene == \E g \in Range(self.control_indx) \cup Range(self.trafo_indx) : g >= pool.nc
        badChan == \E c \in Range(self.input_indices) : c >= self.nn_input_dim
        badData == ~Broadcastable(inputs.nc, inputs.nr, T, Len(self.input_indices))
        badCtrl == ~Broadcastable(T, Len(self.control_indx),
                                  T, Len(ControlVoltageGenesIndex(self)))
    IN  IF badGene THEN {"IndexError"}
        ELSE IF badChan THEN {"IndexError"} \cup (IF badData THEN {"ValueError"} ELSE {})
        ELSE IF badData \/ badCtrl THEN {"ValueError"}
        ELSE {}

\* x_dummy as handed to the model by a pass that completes: np.empty, then the
\* two indexed assignments
Assemble(self, inputs, pool, target, jj) ==
    LET x0 == Mat(Len(target), self.nn_input_dim,
                  [t \in 0..Len(target)-1, c \in 0..self.nn_input_dim-1 |-> Uninit])
        x1 == Scatter(x0, self.input_indices, Transpose(Trafo(self, inputs, pool, jj)))
    IN  Scatter(x1, ControlVoltageGenesIndex(self), ControlVoltageGenes(self, pool, target, jj))

\* np.zeros((genomes, target_wfm.shape[-1]))
OutputBuffer_InputLength(pool, inputs, target) ==
    Mat(pool.nr, inputs.nc, [i \in 0..pool.nr-1, t \in 0..inputs.nc-1 |-> 0])
OutputBuffer(pool, inputs, target) ==
    Mat(pool.nr, Len(target), [i \in 0..pool.nr-1, t \in 0..Len(target)-1 |-> 0])

\* the genome a pass of the loop reads
LoopGenome_First(jj) == 0
LoopGenome(jj) == jj

\* the input waveforms: channels x time-steps, every sample distinct
Waveforms == {Mat(n, T, [c \in 0..n-1, t \in 0..T-1 |-> 1 + c * MaxT + t]) :
                  n \in InChannels, T \in 1..MaxT}
GenePools == UNION {{[nr |-> P, nc |-> Cardinality(GeneIdx), at |-> a] :
                        a \in [0..P-1 -> [GeneIdx -> GeneVals]]} : P \in 0..MaxPop}
Targets == {[t \in 1..T |-> 1] : T \in 1..MaxT}

\* platform.optimize(inputs_wfm, gene_pool, target_wfm) is called: the
\* surrogate platform enters its loop, the two stubs return None
CallOptimize ==
    /\ pc = "ready"
    /\ \E w \in GenePools, i \in Waveforms, tg \in Targets :
        IF platform.class = "SingleChipSimulationNN"
        THEN /\ inputs_wfm' = i
             /\ gene_pool' = w
             /\ target_wfm' = tg
             /\ output_popul' = OutputBuffer(w, i, tg)
             /\ j' = 0
             /\ pc' = "loop"
        ELSE /\ pc' = "returned_none"
             /\ UNCHANGED <<inputs_wfm, gene_pool, target_wfm, output_popul, j>>
    /\ UNCHANGED <<platform_configs, platform, error, loads, infers, constructed, x_dummy>>
    /\ UNCHANGED lvars

\* one pass of the loop body that completes
OptimizeIter ==
    /\ pc = "loop"
    /\ j < gene_pool.nr
    /\ IterErrors(platform, inputs_wfm, gene_pool, target_wfm, LoopGenome(j)) = {}
    /\ LET x == Assemble(platform, inputs_wfm, gene_pool, target_wfm, LoopGenome(j))
           output == Inference(x)
       IN  /\ x_dummy' = x
           /\ output_popul' = [output_popul EXCEPT !.at[j] = output]
    /\ infers' = infers + 1
    /\ j' = j + 1
    /\ UNCHANGED <<platform_configs, platform, pc, error, loads, constructed,
                   inputs_wfm, gene_pool, target_wfm>>
    /\ UNCHANGED lvars

\* one pass of the loop body that raises
OptimizeRaise ==
    /\ pc = "loop"
    /\ j < gene_pool.nr
    /\ \E e \in IterErrors(platform, inputs_wfm, gene_pool, target_wfm, LoopGenome(j)) :
          error' = Raise(e, <<>>)
    /\ pc' = "raised"
    /\ UNCHANGED <<platform_configs, platform, loads, infers, constructed,
                   inputs_wfm, gene_pool, target_wfm, j, output_popul, x_dummy>>
    /\ UNCHANGED lvars

\* return output_popul
OptimizeReturn ==
    /\ pc = "loop"
    /\ j = gene_pool.nr
    /\ pc' = "returned"
    /\ UNCHANGED <<platform_configs, platform, error, loads, infers, constructed,
                   inputs_wfm, gene_pool, target_wfm, j, output_popul, x_dummy>>
    /\ UNCHANGED lvars

\* platform.evaluate(...) is called, the method the module's docstring names:
\* Python raises AttributeError for a method the class does not define
CallEvaluate ==
    /\ pc = "ready"
    /\ "evaluate" \notin Methods(platform.class)
    /\ error' = Raise("AttributeError", <<platform.class, "evaluate">>)
    /\ pc' = "raised"
    /\ UNCHANGED <<platform_configs, platform, loads, infers, constructed,
                   inputs_wfm, gene_pool, target_wfm, j, output_popul, x_dummy>>
    /\ UNCHANGED lvars

PNext == GetPlatform \/ CallOptimize \/ OptimizeIter \/ OptimizeRaise
         \/ OptimizeReturn \/ CallEvaluate


\* ------------------------------------------------- properties: the platforms
RecognizedModalities == {"single_chip", "single_chip_simulation_nn",
                         "single_chip_simulation_kmc"}
IsSurrogate == platform_configs.modality = "single_chip_simulation_nn"
ModelDim == AmplitudeLen(platform_configs.torch_model_path)

\* C1: once get_platform has run on a configuration whose modality is none of
\* the three recognized values, it has raised the unsupported-backend error
\* (NotImplementedError in the source), the message holds the modality, no
\* platform class was constructed and load_model was never called.
C1_UnrecognizedModalityRaises ==
    (pc # "start" /\ platform_configs.modality \notin RecognizedModalities) =>
        /\ pc = "failed"
        /\ error.type = "NotImplementedError"
        /\ \E i \in DOMAIN error.msg : error.msg[i] = platform_configs.modality
        /\ platform = NonePlatform
        /\ constructed = {}
        /\ loads = 0

C1_Witness ==
    /\ pc = "failed"
    /\ platform_configs.modality = "quantum_chip"
    /\ error.type = "NotImplementedError"

\* C2: for every recognized modality, the object get_platform returned has a
\* method evaluate.
C2_PlatformExposesEvaluate ==
    (pc = "ready" /\ platform_configs.modality \in RecognizedModalities) =>
        "evaluate" \in Methods(platform.class)

\* C3: a surrogate configuration whose model loads and whose control-index
\* count differs from the model's input dimension minus len(input_indices)
\* ends construction with the partition-mismatch error (the failed assert,
\* AssertionError) before any inference call; a surrogate platform that was
\* constructed satisfies the equation.
C3_PartitionCountChecked ==
    /\ (/\ pc # "start"
        /\ IsSurrogate
        /\ CheckpointLoads(platform_configs.torch_model_path)
        /\ Len(platform_configs.control_indices)
               # ModelDim - Len(platform_configs.input_indices))
       => /\ pc = "failed"
          /\ error.type = "AssertionError"
          /\ platform = NonePlatform
          /\ infers = 0
    /\ platform.class = "SingleChipSimulationNN"
       => /\ Len(platform_configs.control_indices)
                 = ModelDim - Len(platform_configs.input_indices)
          /\ Len(platform.control_indx) = platform.nn_input_dim - Len(platform.input_indices)

C3_Witness ==
    /\ pc = "failed"
    /\ error.type = "AssertionError"
    /\ Len(platform_configs.control_indices) = 1
    /\ ModelDim - Len(platform_configs.input_indices) = 2

\* the data-input and control groups partition the model's channels
WellFormedPartition(input_indices, control_indices, dim) ==
    /\ \A a, b \in DOMAIN input_indices : a # b => input_indices[a] # input_indices[b]
    /\ \A a \in DOMAIN input_indices : input_indices[a] \in 0..dim-1
    /\ Len(control_indices) = dim - Len(input_indices)

\* C4: every malformed Index Partition is detected at construction, none
\* survives it to fail or misalign during an evaluation call: the model is
\* only ever handed a matrix under a partition whose data-input indices are
\* distinct, in range and complemented by as many control indices.
C4_MalformedPartitionRejected ==
    infers > 0 => WellFormedPartition(platform.input_indices, platform.control_indx,
                                      platform.nn_input_dim)

optimize(self, inputs, pool, target) ==
    [i \in 0..pool.nr-1 |-> Inference(Assemble(self, inputs, pool, target, LoopGenome(i)))]

RowPermutations(n) == {f \in [0..n-1 -> 0..n-1] : \A a, b \in 0..n-1 : a # b => f[a] # f[b]}
PermuteRows(pool, f) == [pool EXCEPT !.at = [i \in 0..pool.nr-1 |-> pool.at[f[i]]]]

\* C6: for every permutation of the rows of gene_pool, evaluating the permuted
\* pool gives the returned rows permuted the same way.
C6_RowIndependence ==
    pc = "returned" =>
        \A f \in RowPermutations(gene_pool.nr) :
            optimize(platform, inputs_wfm, PermuteRows(gene_pool, f), target_wfm)
                = [i \in 0..gene_pool.nr-1 |-> output_popul.at[f[i]]]

C6_Witness ==
    /\ pc = "returned"
    /\ gene_pool.nr = 2
    /\ gene_pool.at[0] # gene_pool.at[1]
    /\ output_popul.at[0] # output_popul.at[1]

\* the value the claim puts in each cell of the matrix handed to the model for
\* genome g: the (transformed) sample of data channel k at time t in column
\* input_indices[k], control gene control_indices[k] in the k-th other column
ColumnsAsClaimed(g) ==
    LET self == platform
        rest == Delete(self.nn_input_dim, self.input_indices)
        shift == IF self.has_trafo THEN gene_pool.at[g][self.trafo_indx[1]] ELSE 0
    IN  \A t \in 0..Len(target_wfm)-1 :
            /\ \A k \in DOMAIN self.input_indices :
                   x_dummy.at[t][self.input_indices[k]] = inputs_wfm.at[k-1][t] + shift
            /\ \A k \in DOMAIN self.control_indx :
                   x_dummy.at[t][rest[k]] = gene_pool.at[g][self.control_indx[k]]
            /\ \A c \in 0..self.nn_input_dim-1 : x_dummy.at[t][c] # Uninit

\* the input waveform has one channel per data-input index and one sample per
\* time-step of the target
WaveformFits ==
    /\ inputs_wfm.nr = Len(platform.input_indices)
    /\ inputs_wfm.nc = Len(target_wfm)

\* C7: whenever a matrix has been handed to the model (for genome j-1), its
\* columns hold the values the claim names, for every time-step.
C7_AssembledMatrix ==
    (infers > 0 /\ WaveformFits) => ColumnsAsClaimed(j - 1)

\* C7 on the partitions C4 calls well-formed
C7_AssembledMatrixOnPartition ==
    (/\ infers > 0
     /\ WaveformFits
     /\ WellFormedPartition(platform.input_indices, platform.control_indx,
                            platform.nn_input_dim))
    => ColumnsAsClaimed(j - 1)

\* ------------------------------------------------- the configuration loader
\* A path is the sequence of its components; a YAML file is the sequence of the
\* nodes of its document, each a plain scalar or a scalar tagged "!include"
\* whose value is a relative path.
Scalar(v) == [tag |-> "scalar", val |-> <<v>>]
IncludeNode(rel) == [tag |-> "!include", val |-> rel]

\* os.path.join(root, rel) for a relative rel, and os.path.dirname
Join(root, rel) == root \o rel
Dirname(path) == SubSeq(path, 1, Len(path) - 1)

\* most nodes a document of the root file holds
MaxNodes == 2

RootFile == <<"cfg", "root.yml">>
SubFile == <<"cfg", "sub.yml">>
IncSubFile == <<"cfg", "inc", "sub.yml">>
Sub2File == <<"cfg", "sub2.yml">>
IncSub2File == <<"cfg", "inc", "sub2.yml">>

RelPaths == {<<"sub.yml">>, <<"inc", "sub.yml">>, <<"sub2.yml">>, <<"root.yml">>,
             <<"missing.yml">>}
RootNodes == {Scalar("Ring")} \cup {IncludeNode(r) : r \in RelPaths}
SubContents == {<<Scalar("sub")>>, <<IncludeNode(<<"sub2.yml">>)>>,
                <<IncludeNode(<<"root.yml">>)>>, <<IncludeNode(<<"sub.yml">>)>>}

\* the file systems: the two sub2.yml files hold a scalar naming their place
FileSystems ==
    {  RootFile :> r @@ SubFile :> a @@ IncSubFile :> b
       @@ Sub2File :> <<Scalar("cfg/sub2")>> @@ IncSub2File :> <<Scalar("cfg/inc/sub2")>>
     : r \in SeqsUpTo(RootNodes, MaxNodes), a \in SubContents, b \in SubContents }

\* yaml.load(f) as _include calls it, with the library's default loader: that
\* class has no constructor for "!include" (add_constructor registered it on
\* IncludeLoader only), so a tagged node ends the load with a ConstructorError
PlainLoad(content) ==
    IF \E n \in DOMAIN content : content[n].tag = "!include"
    THEN [err |-> Raise("ConstructorError", <<"!include">>), val |-> <<>>]
    ELSE [err |-> NoError, val |-> [n \in DOMAIN content |-> content[n].val]]

\* self.root after the two assignments of _include that follow the join
IncludeRoot_NoRestore(oldRoot, filename) == Dirname(filename)
IncludeRoot(oldRoot, filename) ==
    LET root1 == Dirname(filename)
        root2 == oldRoot
    IN  root2

\* IncludeLoader._include on a node, with self.root = root, as
\* [root, err, file, val]: self.root afterwards, the exception, the file it
\* opened and the data it returns
Include(files, root, node) ==
    LET oldRoot == root
        filename == Join(root, node.val)
        newRoot == IncludeRoot(oldRoot, filename)
    IN  IF filename \notin DOMAIN files
        THEN [root |-> newRoot, err |-> Raise("FileNotFoundError", filename),
              file |-> filename, val |-> <<>>]
        ELSE LET r == PlainLoad(files[filename])
             IN  [root |-> newRoot, err |-> r.err, file |-> filename, val |-> r.val]

LInit ==
    /\ fs \in FileSystems
    /\ file_name \in {RootFile, IncSubFile, <<"cfg", "absent.yml">>}
    /\ lpc = "idle"
    /\ self_root = <<>>
    /\ pos = 1
    /\ doc = <<>>
    /\ lerror = NoError

\* load_configs opens the file and IncludeLoader.__init__ sets root to the
\* directory of the stream's name
LoadConfigs ==
    /\ lpc = "idle"
    /\ IF file_name \in DOMAIN fs
       THEN /\ self_root' = Dirname(file_name)
            /\ lpc' = "loading"
            /\ UNCHANGED lerror
       ELSE /\ lerror' = Raise("FileNotFoundError", file_name)
            /\ lpc' = "failed"
            /\ UNCHANGED self_root
    /\ UNCHANGED <<fs, file_name, pos, doc>>
    /\ UNCHANGED pvars

\* the loader constructs a plain scalar node
ConstructScalar ==
    /\ lpc = "loading"
    /\ pos <= Len(fs[file_name])
    /\ fs[file_name][pos].tag = "scalar"
    /\ doc' = Append(doc, [file |-> <<>>, val |-> fs[file_name][pos].val])
    /\ pos' = pos + 1
    /\ UNCHANGED <<fs, file_name, lpc, self_root, lerror>>
    /\ UNCHANGED pvars

\* the loader constructs an "!include" node: _include runs and returns
IncludeReturns ==
    /\ lpc = "loading"
    /\ pos <= Len(fs[file_name])
    /\ fs[file_name][pos].tag = "!include"
    /\ LET r == Include(fs, self_root, fs[file_name][pos])
       IN  /\ r.err = NoError
           /\ self_root' = r.root
           /\ doc' = Append(doc, [file |-> r.file, val |-> r.val])
    /\ pos' = pos + 1
    /\ UNCHANGED <<fs, file_name, lpc, lerror>>
    /\ UNCHANGED pvars

\* the loader constructs an "!include" node: _include raises, and with it
\* load_configs
IncludeRaises ==
    /\ lpc = "loading"
    /\ pos <= Len(fs[file_name])
    /\ fs[file_name][pos].tag = "!include"
    /\ LET r == Include(fs, self_root, fs[file_name][pos])
       IN  /\ r.err # NoError
           /\ self_root' = r.root
           /\ lerror' = r.err
    /\ lpc' = "failed"
    /\ UNCHANGED <<fs, file_name, pos, doc>>
    /\ UNCHANGED pvars

\* every node is constructed: load_configs returns the data
LoadReturns ==
    /\ lpc = "loading"
    /\ pos > Len(fs[file_name])
    /\ lpc' = "done"
    /\ UNCHANGED <<fs, file_name, self_root, pos, doc, lerror>>
    /\ UNCHANGED pvars

LNext == LoadConfigs \/ ConstructScalar \/ IncludeReturns \/ IncludeRaises \/ LoadReturns

\* ------------------------------------------------------- specifications
\* the loader at rest, while the platform is exercised
LIdle ==
    /\ fs = RootFile :> <<>>
    /\ file_name = RootFile
    /\ lpc = "idle"
    /\ self_root = <<>>
    /\ pos = 1
    /\ doc = <<>>
    /\ lerror = NoError

\* the platform at rest, while the loader is exercised
PIdle ==
    /\ platform_configs = [modality |-> "single_chip", torch_model_path |-> "missing.pt",
                           input_indices |-> <<0>>, control_indices |-> <<0, 1>>,
                           has_trafo |-> FALSE, trafo_indx |-> <<>>]
    /\ platform = NonePlatform
    /\ pc = "idle"
    /\ error = NoError
    /\ loads = 0
    /\ infers = 0
    /\ constructed = {}
    /\ inputs_wfm = EmptyMat
    /\ gene_pool = EmptyMat
    /\ target_wfm = <<>>
    /\ j = 0
    /\ output_popul = EmptyMat
    /\ x_dummy = EmptyMat

\* get_platform and the platform's optimize
Init == PInit /\ LIdle
Next == PNext
Spec == Init /\ [][Next]_vars

\* load_configs
InitLoader == LInit /\ PIdle
NextLoader == LNext
SpecLoader == InitLoader /\ [][NextLoader]_vars

\* --------------------------------------------------- properties: the loader
\* node p of the root document has been constructed, or construction ended in it
Processed(p) == pos > p \/ (lpc = "failed" /\ pos = p)

\* the file an "!include" node p of the root document names, resolved against
\* the root file's directory
Included(p) == Join(Dirname(file_name), fs[file_name][p].val)
IsInclude(p) == lpc # "idle" /\ fs[file_name][p].tag = "!include"

\* the nodes of the root document (none when the root file does not exist)
RootNodeIds == IF file_name \in DOMAIN fs THEN DOMAIN fs[file_name] ELSE {}

\* node p includes a file F of another directory, and F holds a directive
\* whose path, taken relative to F's directory, names a file of plain scalars
NestedIncludeAt(p) ==
    /\ IsInclude(p)
    /\ Included(p) \in DOMAIN fs
    /\ Dirname(Included(p)) # Dirname(file_name)
    /\ \E n \in DOMAIN fs[Included(p)] :
          /\ fs[Included(p)][n].tag = "!include"
          /\ Join(Dirname(Included(p)), fs[Included(p)][n].val) \in DOMAIN fs
    /\ \A n \in DOMAIN fs[Included(p)] :
          fs[Included(p)][n].tag = "!include" =>
              LET G == Join(Dirname(Included(p)), fs[Included(p)][n].val)
              IN  G \in DOMAIN fs /\ \A m \in DOMAIN fs[G] : fs[G][m].tag = "scalar"

\* the data of F with each of its directives replaced by the scalars of the
\* file found relative to F's own directory
ResolvedRelativeToOwnDir(F) ==
    [n \in DOMAIN fs[F] |->
        IF fs[F][n].tag = "scalar" THEN fs[F][n].val
        ELSE LET G == Join(Dirname(F), fs[F][n].val)
             IN  [m \in DOMAIN fs[G] |-> fs[G][m].val[1]]]

\* C8: a directive inside an included file F of another directory is resolved
\* relative to F's own directory and replaced by the content found there.
C8_NestedIncludeResolved ==
    \A p \in RootNodeIds :
        (NestedIncludeAt(p) /\ Processed(p)) =>
            /\ lerror = NoError
            /\ doc[p].val = ResolvedRelativeToOwnDir(Included(p))

\* C9: once any inclusion directive of the root document has returned, the
\* loader's base directory is the directory of the including file, and every
\* directive that returned was resolved against that directory, whatever the
\* directives before it pointed to.
C9_BaseDirectoryRestored ==
    \A p \in DOMAIN doc :
        doc[p].file # <<>> =>
            /\ self_root = Dirname(file_name)
            /\ doc[p].file = Included(p)

C9_Witness ==
    /\ Len(doc) = 2
    /\ doc[1].file = IncSubFile
    /\ doc[2].file = Sub2File
    /\ self_root = <<"cfg">>

\* node p starts an include cycle: it includes the root file itself, or a file
\* that includes itself or the root file
CycleAt(p) ==
    /\ IsInclude(p)
    /\ Included(p) \in DOMAIN fs
    /\ \/ Included(p) = file_name
       \/ \E n \in DOMAIN fs[Included(p)] :
             /\ fs[Included(p)][n].tag = "!include"
             /\ Join(Dirname(Included(p)), fs[Included(p)][n].val)
                    \in {file_name, Included(p)}

\* C10: on an include cycle, resolution detects the cycle and fails with an
\* IncludeCycleError.
C10_CycleDetected ==
    \A p \in RootNodeIds :
        (CycleAt(p) /\ Processed(p)) =>
            /\ lpc = "failed"
            /\ lerror.type = "IncludeCycleError"
=============================================================================
